---- MODULE Spec2Model ----
(***************************************************************************)
(* A model of the notebook lab-chatbot-with-multi-query-retriever.ipynb.  *)
(*                                                                         *)
(* The notebook's own code is three operations:                            *)
(*   metadata_func       the JSONLoader callback that fills a passage's    *)
(*                       metadata from its JSON record;                    *)
(*   the query expansion of the MultiQueryRetriever, as far as the cells'  *)
(*                       recorded output ("Generated queries: [...]")      *)
(*                       shows it: the queries are the lines of the        *)
(*                       language model's response;                        *)
(*   _combine_documents  the step of the chain that renders the retrieved  *)
(*                       documents into the context of the final prompt.   *)
(*                                                                         *)
(* Python values are tagged records (None, str, int), a dict is a function *)
(* from its keys, and a text that is formatted, joined or split is a       *)
(* sequence of one-character strings.                                      *)
(***************************************************************************)
EXTENDS Integers, Sequences, FiniteSets, TLC

VARIABLES
    pc,         \* the position of the run: which operation is called or has returned
    record,     \* metadata_func: the JSON record of the document
    metadata,   \* metadata_func: the metadata dict, before and after the call
    response,   \* expansion: the text the language model answered with
    queries,    \* expansion: the generated queries
    docs,       \* _combine_documents: the documents the retriever returned
    max_chars,  \* the context budget the request is configured with
    context     \* _combine_documents: the context string

vars == <<pc, record, metadata, response, queries, docs, max_chars, context>>

(***************************************************************************)
(* Python values and dicts.                                                *)
(***************************************************************************)
None == [tag |-> "None"]

PyStr(s) == [tag |-> "str", val |-> s]

PyInt(n) == [tag |-> "int", num |-> n]

\* bool(v): None, the empty string and 0 are falsy.
Truthy(v) ==
    CASE v.tag = "None" -> FALSE
      [] v.tag = "str" -> v.val # ""
      [] v.tag = "int" -> v.num # 0

EmptyDict == [k \in {} |-> None]

\* d.get(k, default)
DictGet(d, k, default) == IF k \in DOMAIN d THEN d[k] ELSE default

\* d[k] = v
DictSet(d, k, v) == [x \in (DOMAIN d) \cup {k} |-> IF x = k THEN v ELSE d[x]]

(***************************************************************************)
(* metadata_func(record, metadata)                                         *)
(***************************************************************************)
\* A faulty metadata_func: the test for "N/A" is left out.
metadata_func_no_na(rec, md) ==
    LET m1 == DictSet(md, "name", DictGet(rec, "name", PyStr("Unknown Name")))
        m2 == DictSet(m1, "url", DictGet(rec, "url", PyStr("N/A")))
        m3 == DictSet(m2, "category", DictGet(rec, "category", PyStr("Uncategorized")))
        updated_at == DictGet(rec, "updated_at", None)
    IN  IF Truthy(updated_at)
        THEN DictSet(m3, "updated_at", updated_at)
        ELSE DictSet(m3, "updated_at", PyStr("1970-01-01"))

metadata_func(rec, md) ==
    LET m1 == DictSet(md, "name", DictGet(rec, "name", PyStr("Unknown Name")))
        m2 == DictSet(m1, "url", DictGet(rec, "url", PyStr("N/A")))
        m3 == DictSet(m2, "category", DictGet(rec, "category", PyStr("Uncategorized")))
        updated_at == DictGet(rec, "updated_at", None)
    IN  IF Truthy(updated_at) /\ updated_at # PyStr("N/A")
        THEN DictSet(m3, "updated_at", updated_at)
        ELSE DictSet(m3, "updated_at", PyStr("1970-01-01"))

(***************************************************************************)
(* The inputs of metadata_func: records whose four keys are each missing   *)
(* or hold one of a few values, and the metadata dict the loader passes.   *)
(***************************************************************************)
MetaKeys == {"name", "url", "category", "updated_at"}

FieldValues == {None, PyStr("Sales Team")}

UpdatedValues == {None, PyStr(""), PyStr("N/A"), PyStr("2024-03-01"), PyInt(0), PyInt(2024)}

ValuesOf(k) == IF k = "updated_at" THEN UpdatedValues ELSE FieldValues

Records ==
    UNION {{r \in [K -> FieldValues \cup UpdatedValues] :
                \A k \in K : r[k] \in ValuesOf(k)} : K \in SUBSET MetaKeys}

LoaderMetadata ==
    {EmptyDict,
     [k \in {"source", "seq_num"} |->
        IF k = "source" THEN PyStr("temp.json") ELSE PyInt(1)],
     [k \in {"source", "updated_at"} |->
        IF k = "source" THEN PyStr("temp.json") ELSE PyStr("stale")]}

NoText == << >>

InitLoad ==
    /\ pc = "load"
    /\ record \in Records
    /\ metadata \in LoaderMetadata
    /\ response = NoText /\ queries = << >>
    /\ docs = << >> /\ max_chars = 0 /\ context = NoText

\* JSONLoader calls metadata_func on the record of a document.
MetadataFunc ==
    /\ pc = "load"
    /\ metadata' = metadata_func(record, metadata)
    /\ pc' = "loaded"
    /\ UNCHANGED <<record, response, queries, docs, max_chars, context>>

(***************************************************************************)
(* Texts: sequences of one-character strings.                              *)
(***************************************************************************)
RECURSIVE Join(_, _)
\* sep.join(strs)
Join(strs, sep) ==
    IF Len(strs) = 0 THEN NoText
    ELSE IF Len(strs) = 1 THEN strs[1]
    ELSE strs[1] \o sep \o Join(Tail(strs), sep)

\* The positions of the character c in the text s.
Positions(s, c) == {i \in 1..Len(s) : s[i] = c}

Min(S) == CHOOSE i \in S : \A j \in S : i <= j

RECURSIVE Split(_, _)
\* s.split(c), c one character: the pieces between the occurrences of c.
Split(s, c) ==
    IF Positions(s, c) = {} THEN <<s>>
    ELSE LET i == Min(Positions(s, c))
         IN  <<SubSeq(s, 1, i - 1)>> \o Split(SubSeq(s, i + 1, Len(s)), c)

NewLine == "\n"

(***************************************************************************)
(* The query expansion of the MultiQueryRetriever.  The run logs the       *)
(* queries it generated: the lines of the model's response, as they are    *)
(* (the list numbering and a trailing blank are still on them).            *)
(***************************************************************************)
generate_queries(text) == Split(text, NewLine)

MaxQueries == 3

\* What a line of the response asks, after its numbering.
Bodies == {<<"q">>, <<"q", "?">>, <<"r", "?", " ">>}

\* "1. ", "2. ", ...: the numbering of line i of a numbered list.
Numbering(i) == <<ToString(i), ".", " ">>

\* The responses: 1..MaxQueries lines, all numbered or none.
ResponseLines ==
    UNION {{[i \in 1..n |-> IF numbered THEN Numbering(i) \o b[i] ELSE b[i]] :
                b \in [1..n -> Bodies], numbered \in BOOLEAN} :
           n \in 1..MaxQueries}

Responses == {Join(ls, <<NewLine>>) : ls \in ResponseLines}

InitExpand ==
    /\ pc = "ask"
    /\ response \in Responses
    /\ queries = << >>
    /\ record = EmptyDict /\ metadata = EmptyDict
    /\ docs = << >> /\ max_chars = 0 /\ context = NoText

\* The retriever expands the question: the model has answered, the queries are
\* generated from its response.
GenerateQueries ==
    /\ pc = "ask"
    /\ queries' = generate_queries(response)
    /\ pc' = "expanded"
    /\ UNCHANGED <<record, metadata, response, docs, max_chars, context>>

(***************************************************************************)
(* LLM_DOCUMENT_PROMPT, format_document and _combine_documents.            *)
(***************************************************************************)
\* The template "\n---\nSOURCE: {name}\n{page_content}\n---\n", around its two fields.
DocumentPromptHead ==
    <<NewLine, "-", "-", "-", NewLine, "S", "O", "U", "R", "C", "E", ":", " ">>

DocumentPromptMid == <<NewLine>>

DocumentPromptTail == <<NewLine, "-", "-", "-", NewLine>>

\* format_document(doc, LLM_DOCUMENT_PROMPT)
format_document(doc) ==
    DocumentPromptHead \o doc.metadata.name \o DocumentPromptMid
        \o doc.page_content \o DocumentPromptTail

document_separator == <<NewLine, NewLine>>

\* The documents of ds that no earlier document of ds equals.
Unique(ds) ==
    LET keep == {i \in 1..Len(ds) : \A j \in 1..(i - 1) : ds[j] # ds[i]}
        F[i \in 0..Len(ds)] ==
            IF i = 0 THEN << >>
            ELSE IF i \in keep THEN Append(F[i - 1], ds[i]) ELSE F[i - 1]
    IN  F[Len(ds)]

\* A faulty _combine_documents: a document that is returned twice is rendered once.
_combine_documents_unique(ds) ==
    LET us == Unique(ds)
        doc_strings == [i \in 1..Len(us) |-> format_document(us[i])]
    IN  Join(doc_strings, document_separator)

_combine_documents(ds) ==
    LET doc_strings == [i \in 1..Len(ds) |-> format_document(ds[i])]
    IN  Join(doc_strings, document_separator)

MaxDocs == 3

MaxChars == 60

Names == {<<"H", "R">>, <<"S">>}

Contents == {NoText, <<"x">>, <<"x", "y", "z">>}

Documents == [page_content : Contents, metadata : [name : Names]]

DocLists == UNION {[1..n -> Documents] : n \in 0..MaxDocs}

InitCombine ==
    /\ pc = "retrieved"
    /\ docs \in DocLists
    /\ max_chars \in 0..MaxChars
    /\ context = NoText
    /\ record = EmptyDict /\ metadata = EmptyDict
    /\ response = NoText /\ queries = << >>

\* The chain pipes the retriever's documents into _combine_documents.
CombineDocuments ==
    /\ pc = "retrieved"
    /\ context' = _combine_documents(docs)
    /\ pc' = "combined"
    /\ UNCHANGED <<record, metadata, response, queries, docs, max_chars>>

Init == InitLoad \/ InitExpand \/ InitCombine

Next == MetadataFunc \/ GenerateQueries \/ CombineDocuments

Spec == Init /\ [][Next]_vars

(***************************************************************************)
(* metadata_func: the metadata of a loaded record.                         *)
(***************************************************************************)
\* The record has a usable updated_at: the key is there, its value is truthy
\* and is not "N/A".
C9_HasUpdatedAt ==
    /\ "updated_at" \in DOMAIN record
    /\ record["updated_at"] \notin {None, PyStr(""), PyInt(0), PyStr("N/A")}

C9_FieldSet(k, default) ==
    /\ k \in DOMAIN metadata
    /\ metadata[k] = IF k \in DOMAIN record THEN record[k] ELSE PyStr(default)

\* C9: metadata_func returns metadata whose updated_at is the record's updated_at
\* when that value is present, truthy and not "N/A", and "1970-01-01" in every
\* other case (key missing, None, empty string, "N/A"); name, url and category
\* are always set, to the record's value, or to "Unknown Name", "N/A" and
\* "Uncategorized" when the key is missing.
C9_MetadataFunc ==
    pc = "loaded" =>
        /\ "updated_at" \in DOMAIN metadata
        /\ C9_HasUpdatedAt => metadata["updated_at"] = record["updated_at"]
        /\ ~C9_HasUpdatedAt => metadata["updated_at"] = PyStr("1970-01-01")
        /\ "updated_at" \notin DOMAIN record
                => metadata["updated_at"] = PyStr("1970-01-01")
        /\ \A v \in {None, PyStr(""), PyStr("N/A")} :
                ("updated_at" \in DOMAIN record /\ record["updated_at"] = v)
                    => metadata["updated_at"] = PyStr("1970-01-01")
        /\ C9_FieldSet("name", "Unknown Name")
        /\ C9_FieldSet("url", "N/A")
        /\ C9_FieldSet("category", "Uncategorized")

\* A record whose updated_at is "N/A" and whose name is missing, over metadata
\* that held a stale updated_at, has been loaded with the two defaults.
C9_Witness ==
    /\ pc = "loaded"
    /\ "updated_at" \in DOMAIN record /\ record["updated_at"] = PyStr("N/A")
    /\ "name" \notin DOMAIN record
    /\ "url" \in DOMAIN record /\ record["url"] = None
    /\ "source" \in DOMAIN metadata
    /\ metadata["updated_at"] = PyStr("1970-01-01")
    /\ metadata["name"] = PyStr("Unknown Name")
    /\ metadata["url"] = None

(***************************************************************************)
(* The expansion step: a numbered list.                                    *)
(***************************************************************************)
C7_Digits == {ToString(d) : d \in 0..9}

\* The text starts with a list numbering: a digit, a full stop, a blank.
C7_IsNumbered(line) ==
    /\ Len(line) >= 3
    /\ line[1] \in C7_Digits /\ line[2] = "." /\ line[3] = " "

\* The number of lines of the response.
C7_Lines == Cardinality(Positions(response, NewLine)) + 1

\* The response is a numbered list: its first line and every line after a line
\* break start with a numbering.
C7_NumberedList ==
    /\ C7_IsNumbered(response)
    /\ \A i \in Positions(response, NewLine) :
            C7_IsNumbered(SubSeq(response, i + 1, Len(response)))

\* C7: when the model answers with an n-line numbered list, the expansion step
\* produces n distinct query strings, each with its list numbering stripped.
C7_NumberingStripped ==
    (pc = "expanded" /\ C7_NumberedList) =>
        /\ Len(queries) = C7_Lines
        /\ \A i, j \in 1..Len(queries) : i # j => queries[i] # queries[j]
        /\ \A i \in 1..Len(queries) : ~C7_IsNumbered(queries[i])

(***************************************************************************)
(* _combine_documents: the context of the final prompt.                    *)
(***************************************************************************)
C10_Block(i) == format_document(docs[i])

RECURSIVE C10_Offset(_)
\* Where block i starts in the context, counted from 0: after the blocks before
\* it and a separator for each.
C10_Offset(i) ==
    IF i = 1 THEN 0
    ELSE C10_Offset(i - 1) + Len(C10_Block(i - 1)) + Len(document_separator)

C10_Slice(from, len) == SubSeq(context, from + 1, from + len)

\* C10: _combine_documents renders every document exactly once and in input
\* order: the context is the n rendered blocks, each carrying its document's
\* name and text, with the separator "\n\n" between two blocks (n - 1
\* separators) and nothing else; it is empty for n = 0.  No document is
\* dropped, truncated, reordered or deduplicated, whatever the total size.
C10_EveryDocumentRendered ==
    pc = "combined" =>
        LET n == Len(docs) IN
        /\ n = 0 => context = NoText
        /\ n >= 1 =>
              Len(context) = C10_Offset(n) + Len(C10_Block(n))
        /\ \A i \in 1..n :
              /\ C10_Slice(C10_Offset(i), Len(C10_Block(i))) = C10_Block(i)
              /\ C10_Slice(C10_Offset(i) + Len(DocumentPromptHead),
                           Len(docs[i].metadata.name)) = docs[i].metadata.name
              /\ C10_Slice(C10_Offset(i) + Len(DocumentPromptHead)
                              + Len(docs[i].metadata.name) + 1,
                           Len(docs[i].page_content)) = docs[i].page_content
        /\ \A i \in 1..(n - 1) :
              C10_Slice(C10_Offset(i) + Len(C10_Block(i)), 2) = <<NewLine, NewLine>>

\* Three documents, the first returned again as the third, have been rendered
\* into a context longer than the budget.
C10_Witness ==
    /\ pc = "combined"
    /\ Len(docs) = 3
    /\ docs[1] = docs[3] /\ docs[1] # docs[2]
    /\ Len(context) > max_chars
    /\ max_chars >= Len(format_document(docs[1]))

\* C4: the context string the assembler produces is never longer than the
\* budget max_chars.
C4_ContextWithinBudget ==
    pc = "combined" => Len(context) <= max_chars

\* The length of the rendering of the first k documents.
C5_PrefixLen(k) == IF k = 0 THEN 0 ELSE C10_Offset(k) + Len(C10_Block(k))

\* The number of documents the greedy assembler takes: it stops at the first
\* document whose block would take the context over the budget.
C5_Taken ==
    CHOOSE k \in 0..Len(docs) :
        /\ C5_PrefixLen(k) <= max_chars
        /\ k < Len(docs) => C5_PrefixLen(k + 1) > max_chars

\* C5: the context is the rendering of a prefix of the documents, each whole:
\* documents are taken in order until the next would exceed max_chars, that one
\* and all after it are dropped; when the first alone exceeds max_chars, or
\* there is none, the context is the empty string.
C5_GreedyPrefix ==
    pc = "combined" =>
        /\ context = _combine_documents(SubSeq(docs, 1, C5_Taken))
        /\ (Len(docs) = 0 \/ C5_PrefixLen(1) > max_chars) => context = NoText

====
